---- MODULE Spec2Model ----
(***************************************************************************)
(* A model of py-jsondocument: the JSONDocument base class                 *)
(* (src/jsondocument.py), the JSONServer contract (src/jsonserver.py) and  *)
(* the servers that implement it (src/mockserver.py, src/mongoserver.py).  *)
(*                                                                         *)
(* One document instance is followed through its life (construction,       *)
(* merge, load, store, remove), together with the class-level              *)
(* (server, bucket) binding of two document kinds: JSONDocument itself and *)
(* a kind derived from it.                                                 *)
(***************************************************************************)
EXTENDS Integers, Sequences, FiniteSets, TLC

VARIABLES
    doc,          \* the document instance: [exists, cls, dict]; dict is its __dict__
    uuids,        \* how many uuid4 tokens have been generated so far
    classServer,  \* per kind: the class attribute `server` as set on that class
    classBucket,  \* per kind: the class attribute `use_bucket` as set on that class
    last          \* the last call: its operation, arguments, outcome, server calls

vars == <<doc, uuids, classServer, classBucket, last>>

-----------------------------------------------------------------------------
(* Bounds *)

\* at most this many uuid4 tokens are generated in one behaviour
MaxUuid == 2
\* a data mapping (json argument, backend record) has at most this many keys
MaxDataLen == 2
\* a backend's find returns at most this many records
MaxFound == 1

-----------------------------------------------------------------------------
(* Python values.  A value carries its type, so that str() is a conversion *)
(* and a string never equals the integer or the None it was made from.     *)

None == [k |-> "none", s |-> "", n |-> 0]
S(x) == [k |-> "str", s |-> x, n |-> 0]
I(x) == [k |-> "int", s |-> x, n |-> 0]
\* str(uuid.uuid4()): the n-th token generated, distinct from every other
Uuid(n) == [k |-> "str", s |-> "uuid4", n |-> n]

\* Python's str(): None becomes the string "None", an int its decimal
\* form, a string itself
Str(v) ==
    IF v.k = "none" THEN S("None")
    ELSE IF v.k = "int" THEN S(v.s)
    ELSE v

\* Python truthiness of a value (`not doc_id`)
Truthy(v) == v # None /\ v # S("") /\ v # I("0")

\* identities callers and backends supply
IdVals == {None, S("abc"), S("None"), I("7")}
\* values of regular attributes
AttrVals == {S("x")}
\* the doctype argument
DocTypes == {None, S("doc")}

-----------------------------------------------------------------------------
(* Data mappings.  A Python dict keeps insertion order and update_with     *)
(* walks it in that order, so a mapping is a sequence of key/value pairs   *)
(* with distinct keys.  The argument may also be None.                     *)

Pairs == [k : {"_id", "id"}, v : IdVals] \cup [k : {"a"}, v : AttrVals]

DistinctKeys(s) == \A i, j \in 1..Len(s) : i # j => s[i].k # s[j].k

ItemsUpTo(n) ==
    {s \in UNION {[1..m -> Pairs] : m \in 0..n} : DistinctKeys(s)}

Items == ItemsUpTo(MaxDataLen)

JNone == [isNone |-> TRUE, items |-> <<>>]
J(items) == [isNone |-> FALSE, items |-> items]

Jsons == {JNone} \cup {J(s) : s \in Items}

HasKey(items, key) == \E i \in 1..Len(items) : items[i].k = key
Get(items, key) == items[CHOOSE i \in 1..Len(items) : items[i].k = key].v
DelKey(items, key) == SelectSeq(items, LAMBDA p : p.k # key)

\* the keys of a mapping, in its order
KeysOf(json) ==
    IF json.isNone THEN <<>>
    ELSE [i \in 1..Len(json.items) |-> json.items[i].k]

EmptyDict == [x \in {} |-> None]

-----------------------------------------------------------------------------
(* Kinds, servers, buckets *)

Kinds == {"JSONDocument", "SubDocument"}
\* the base of a derived kind (class attribute lookup follows it)
Base(cls) == "JSONDocument"

NoServer == "<None>"
Unset == "<unset>"
Servers == {"JSONServer", "MockServer", "MongoServer"}
\* an object that is not a JSONServer
WrongServer == "WrongMockServer"

NoBucket == "<None>"
Buckets == {"foo", "bar"}

-----------------------------------------------------------------------------
(* The record of the last call *)

NoRet == [isNone |-> TRUE, docs |-> <<>>]

Call(op, cls) ==
    [op |-> op, cls |-> cls, err |-> "", key |-> "",
     ident |-> None, doctype |-> None, json |-> JNone, keys |-> <<>>,
     srv |-> NoServer, bucket |-> NoBucket,
     reply |-> None, found |-> [isNone |-> TRUE, records |-> <<>>],
     ret |-> NoRet, calls |-> <<>>]

\* one invocation of a server operation
Invoke(srv, op, bucket, arg) == [srv |-> srv, op |-> op, bucket |-> bucket, arg |-> arg]

\* the outcome of a method on the document: the error raised (or ""), the
\* offending key, the __dict__ afterwards, the server calls made, what the
\* server's store answered, the keys of the record a load merged
Out(err, key, dict, calls, reply) ==
    [err |-> err, key |-> key, dict |-> dict, calls |-> calls, reply |-> reply,
     keys |-> <<>>]

-----------------------------------------------------------------------------
(* JSONDocument: attributes and merge *)

\* setattr(self, key, val): `id` is a property without a setter, so
\* assigning it raises AttributeError; every other name lands in __dict__
\* (`_id` included: it is the field the id property reads)
SetAttr(dict, key, val) ==
    IF key = "id"
    THEN [err |-> "attr", dict |-> dict]
    ELSE [err |-> "",
          dict |-> [x \in DOMAIN dict \cup {key} |-> IF x = key THEN val ELSE dict[x]]]

\* the loop of update_with from item i on: the first key that cannot be
\* set raises; the keys before it stay set
RECURSIVE UpdateItems(_, _, _)
UpdateItems(dict, items, i) ==
    IF i > Len(items)
    THEN [err |-> "", key |-> "", dict |-> dict]
    ELSE LET r == SetAttr(dict, items[i].k, items[i].v)
         IN  IF r.err # ""
             THEN [err |-> "attr", key |-> items[i].k, dict |-> dict]
             ELSE UpdateItems(r.dict, items, i + 1)

\* update_with(doc)
UpdateWithRes(dict, json) ==
    IF json.isNone
    THEN [err |-> "", key |-> "", dict |-> dict]
    ELSE UpdateItems(dict, json.items, 1)

\* the id property
Id(dict) == dict["_id"]

\* as_json(): a copy of __dict__ (attribute values here are scalars, so
\* there is no nested document to expand)
AsJson(dict) == [x \in DOMAIN dict |-> dict[x]]

-----------------------------------------------------------------------------
(* JSONDocument.__init__ *)

\* FindIdent looking at `id` before `_id`
FindIdent_IdFirst(ident, json) ==
    IF ident # None THEN ident
    ELSE IF json.isNone THEN None
    ELSE IF HasKey(json.items, "id") THEN Get(json.items, "id")
    ELSE IF HasKey(json.items, "_id") THEN Get(json.items, "_id")
    ELSE None

\* "find the document id": the ident looked up when none is passed
FindIdent(ident, json) ==
    IF ident # None THEN ident
    ELSE IF json.isNone THEN None
    ELSE IF HasKey(json.items, "_id") THEN Get(json.items, "_id")
    ELSE IF HasKey(json.items, "id") THEN Get(json.items, "id")
    ELSE None

\* whether __init__ calls uuid.uuid4()
NeedsUuid(ident, json) == ident = None /\ FindIdent(ident, json) = None

\* StripIds deleting `_id` only
StripIds_KeepId(json) ==
    IF json.isNone THEN json
    ELSE J(DelKey(json.items, "_id"))

\* "set all attributes except '_id' and 'id'": the json with both deleted
StripIds(json) ==
    IF json.isNone THEN json
    ELSE J(DelKey(DelKey(json.items, "_id"), "id"))

\* __init__(ident, doctype, json) with n uuids generated before it: the
\* error raised, the new __dict__, the uuids generated after it
InitRes(ident, doctype, json, n) ==
    LET found == FindIdent(ident, json)
        fresh == NeedsUuid(ident, json)
        ident2 == IF fresh THEN Uuid(n + 1) ELSE found
        id == IF ident2 # None THEN Str(ident2) ELSE None
        n2 == IF fresh THEN n + 1 ELSE n
        d0 == [x \in {"_id"} |-> id]
        u == UpdateWithRes(d0, StripIds(json))
        d2 == IF doctype # None THEN SetAttr(u.dict, "type", doctype).dict ELSE u.dict
    IN  IF u.err # ""
        THEN [err |-> u.err, key |-> u.key, dict |-> u.dict, n |-> n2]
        ELSE [err |-> "", key |-> "", dict |-> d2, n |-> n2]

-----------------------------------------------------------------------------
(* The servers.  Each operation gives the set of outcomes [err, ret] the   *)
(* server can produce: JSONServer and MockServer are the code of this      *)
(* repository; MongoServer's own checks are its code and what pymongo      *)
(* answers behind them is any reply of the backend.                        *)

Ok(ret) == [err |-> "", ret |-> ret]
Raised == [err |-> "adapter", ret |-> None]
RaisedJ == [err |-> "adapter", ret |-> JNone]
\* the server's own 'Need a doc_id' check
NeedDocId == [err |-> "missing-id", ret |-> None]
NeedDocIdJ == [err |-> "missing-id", ret |-> JNone]

\* records a backend holds: any data mapping
BackendRecords == {J(s) : s \in Items}

\* load_document(bucket, doc_id)
LoadDocument(srv, bucket, doc_id) ==
    CASE srv = "JSONServer" -> {Ok(JNone)}
      [] srv = "MockServer" -> {Ok(JNone)}
      [] srv = "MongoServer" ->
            IF ~Truthy(doc_id) THEN {NeedDocIdJ}
            ELSE {RaisedJ} \cup {Ok(r) : r \in {JNone} \cup BackendRecords}

\* store_document(bucket, document)
StoreDocument(srv, bucket, document) ==
    CASE srv = "JSONServer" -> {Ok(None)}
      [] srv = "MockServer" ->
            {Ok(IF "_id" \in DOMAIN document THEN document["_id"] ELSE None)}
      [] srv = "MongoServer" ->
            {Raised} \cup {Ok(v) : v \in IdVals \cup {document["_id"]}}

\* remove_document(bucket, doc_id)
RemoveDocument(srv, bucket, doc_id) ==
    CASE srv = "JSONServer" -> {Ok(None)}
      [] srv = "MockServer" -> {Ok(None)}
      [] srv = "MongoServer" ->
            IF ~Truthy(doc_id) THEN {NeedDocId} ELSE {Raised, Ok(None)}

\* what insert is given: a single record or a list of records
Documents == {<<>>, <<J(<<>>)>>}

\* add_documents(bucket, documents): MockServer reads self.can_add, which
\* its __init__ never sets, and raises
AddDocuments(srv, bucket, documents) ==
    CASE srv = "JSONServer" -> {Ok(None)}
      [] srv = "MockServer" -> {Raised}
      [] srv = "MongoServer" -> {Raised, Ok(None)}

\* what a find returns: None, or a sequence of records
FoundNone == [isNone |-> TRUE, records |-> <<>>]
Found(records) == [isNone |-> FALSE, records |-> records]
RaisedF == [err |-> "adapter", ret |-> FoundNone]

\* records of a find: empty, or one key with a null or a string value
FoundRecords ==
    {J(s) : s \in {x \in ItemsUpTo(1) : \A n \in 1..Len(x) : x[n].v.k # "int" /\ x[n].v.s # "None"}}
Cursors == UNION {[1..m -> FoundRecords] : m \in 0..MaxFound}

\* find(bucket, dictionary): MockServer answers its found_documents, None
\* as constructed
FindDocuments(srv, bucket, dictionary) ==
    CASE srv = "JSONServer" -> {Ok(FoundNone)}
      [] srv = "MockServer" -> {Ok(FoundNone)}
      [] srv = "MongoServer" -> {RaisedF} \cup {Ok(Found(c)) : c \in Cursors}

-----------------------------------------------------------------------------
(* JSONDocument: CRUD with the server passed explicitly *)

\* load_from(server, bucket)
LoadFromRes(dict, server, bucket) ==
    IF Id(dict) = None
    THEN {Out("missing-id", "", dict, <<>>, None)}
    ELSE LET calls == <<Invoke(server, "load_document", bucket, Id(dict))>>
         IN  {IF o.err # ""
              THEN Out(o.err, "", dict, calls, None)
              ELSE LET u == UpdateWithRes(dict, o.ret)
                   IN  [Out(u.err, u.key, u.dict, calls, None)
                            EXCEPT !.keys = KeysOf(o.ret)]
              : o \in LoadDocument(server, bucket, Id(dict))}

\* StoreToRes comparing the ids themselves instead of their str()
StoreToRes_RawCompare(dict, server, bucket) ==
    LET calls == <<Invoke(server, "store_document", bucket, Id(dict))>>
    IN  {IF o.err # ""
         THEN Out(o.err, "", dict, calls, None)
         ELSE IF Id(dict) # None /\ o.ret # Id(dict)
         THEN Out("consistency", "", dict, calls, o.ret)
         ELSE Out("", "", [dict EXCEPT !["_id"] = o.ret], calls, o.ret)
         : o \in StoreDocument(server, bucket, AsJson(dict))}

\* store_to(server, bucket)
StoreToRes(dict, server, bucket) ==
    LET calls == <<Invoke(server, "store_document", bucket, Id(dict))>>
    IN  {IF o.err # ""
         THEN Out(o.err, "", dict, calls, None)
         ELSE IF Id(dict) # None /\ Str(o.ret) # Str(Id(dict))
         THEN Out("consistency", "", dict, calls, o.ret)
         ELSE Out("", "", [dict EXCEPT !["_id"] = o.ret], calls, o.ret)
         : o \in StoreDocument(server, bucket, AsJson(dict))}

\* remove_from(server, bucket)
RemoveFromRes(dict, server, bucket) ==
    LET calls == <<Invoke(server, "remove_document", bucket, Id(dict))>>
    IN  {Out(o.err, "", dict, calls, None)
         : o \in RemoveDocument(server, bucket, Id(dict))}

\* insert_to(documents, server, bucket): the ids the server returns are
\* dropped
InsertToRes(documents, server, bucket) ==
    LET calls == <<Invoke(server, "add_documents", bucket, None)>>
    IN  {[err |-> o.err, calls |-> calls] : o \in AddDocuments(server, bucket, documents)}

\* the loop of find_on from record i on: one cls(None, json=doc) per record
RECURSIVE BuildFound(_, _, _, _)
BuildFound(cls, records, i, n) ==
    IF i > Len(records)
    THEN [err |-> "", docs |-> <<>>, n |-> n]
    ELSE LET r == InitRes(None, None, records[i], n)
         IN  IF r.err # ""
             THEN [err |-> r.err, docs |-> <<>>, n |-> r.n]
             ELSE LET rest == BuildFound(cls, records, i + 1, r.n)
                  IN  [err |-> rest.err,
                       docs |-> IF rest.err # "" THEN <<>>
                                ELSE <<[cls |-> cls, dict |-> r.dict]>> \o rest.docs,
                       n |-> rest.n]

\* find_on(dic, server, bucket) with n uuids generated before it
FindOnRes(cls, server, bucket, n) ==
    LET calls == <<Invoke(server, "find", bucket, None)>>
    IN  {IF o.err # ""
         THEN [err |-> o.err, ret |-> NoRet, n |-> n, calls |-> calls, found |-> FoundNone]
         ELSE IF o.ret.isNone
         THEN [err |-> "", ret |-> [isNone |-> FALSE, docs |-> <<>>], n |-> n,
               calls |-> calls, found |-> o.ret]
         ELSE LET b == BuildFound(cls, o.ret.records, 1, n)
              IN  [err |-> b.err,
                   ret |-> IF b.err # "" THEN NoRet
                           ELSE [isNone |-> FALSE, docs |-> b.docs],
                   n |-> b.n, calls |-> calls, found |-> o.ret]
         : o \in FindDocuments(server, bucket, None)}

-----------------------------------------------------------------------------
(* The class-level binding *)

\* cls.server / cls.use_bucket: the attribute set on the class itself or,
\* when the class never had it assigned, the one of its base
ClassServer(cls) ==
    IF classServer[cls] # Unset THEN classServer[cls] ELSE classServer[Base(cls)]

ClassBucket(cls) ==
    IF classBucket[cls] # Unset THEN classBucket[cls] ELSE classBucket[Base(cls)]

\* AssureClassHasServer without its use_bucket check
AssureClassHasServer_NoBucketCheck(cls) ==
    IF ClassServer(cls) = NoServer THEN [err |-> "unbound", srv |-> NoServer]
    ELSE [err |-> "", srv |-> ClassServer(cls)]

\* assure_class_has_server()
AssureClassHasServer(cls) ==
    IF ClassServer(cls) = NoServer THEN [err |-> "unbound", srv |-> NoServer]
    ELSE IF ClassBucket(cls) = NoBucket THEN [err |-> "unbound", srv |-> NoServer]
    ELSE [err |-> "", srv |-> ClassServer(cls)]

\* HookupRes setting the bucket before it validates the server
HookupRes_BucketFirst(cls, jsonsrv, bucket) ==
    LET b == IF bucket # NoBucket /\ bucket # ""
             THEN [classBucket EXCEPT ![cls] = bucket] ELSE classBucket
    IN  IF ClassServer(cls) = NoServer /\ jsonsrv = NoServer
        THEN [err |-> "need-server", server |-> classServer, bucket |-> b]
        ELSE IF jsonsrv # NoServer /\ jsonsrv \notin Servers
        THEN [err |-> "capability", server |-> classServer, bucket |-> b]
        ELSE [err |-> "",
              server |-> IF jsonsrv # NoServer
                         THEN [classServer EXCEPT ![cls] = jsonsrv] ELSE classServer,
              bucket |-> b]

\* HookupRes taking an empty bucket name like any other
HookupRes_EmptyBucket(cls, jsonsrv, bucket) ==
    IF ClassServer(cls) = NoServer /\ jsonsrv = NoServer
    THEN [err |-> "need-server", server |-> classServer, bucket |-> classBucket]
    ELSE IF jsonsrv # NoServer /\ jsonsrv \notin Servers
    THEN [err |-> "capability", server |-> classServer, bucket |-> classBucket]
    ELSE [err |-> "",
          server |-> IF jsonsrv # NoServer
                     THEN [classServer EXCEPT ![cls] = jsonsrv] ELSE classServer,
          bucket |-> IF bucket # NoBucket
                     THEN [classBucket EXCEPT ![cls] = bucket] ELSE classBucket]

\* hookup(jsonsrv, bucket): the error raised and the class attributes
\* afterwards
HookupRes(cls, jsonsrv, bucket) ==
    IF ClassServer(cls) = NoServer /\ jsonsrv = NoServer
    THEN [err |-> "need-server", server |-> classServer, bucket |-> classBucket]
    ELSE IF jsonsrv # NoServer /\ jsonsrv \notin Servers
    THEN [err |-> "capability", server |-> classServer, bucket |-> classBucket]
    ELSE [err |-> "",
          server |-> IF jsonsrv # NoServer
                     THEN [classServer EXCEPT ![cls] = jsonsrv] ELSE classServer,
          bucket |-> IF bucket # NoBucket /\ bucket # ""
                     THEN [classBucket EXCEPT ![cls] = bucket] ELSE classBucket]

-----------------------------------------------------------------------------
(* Initial state: the classes as defined, no document constructed yet *)

Init ==
    /\ doc = [exists |-> FALSE, cls |-> "JSONDocument", dict |-> EmptyDict]
    /\ uuids = 0
    /\ classServer = [c \in Kinds |-> IF c = "JSONDocument" THEN NoServer ELSE Unset]
    /\ classBucket = [c \in Kinds |-> IF c = "JSONDocument" THEN NoBucket ELSE Unset]
    /\ last = Call("none", "JSONDocument")

-----------------------------------------------------------------------------
(* Actions *)

\* doc = cls(ident, doctype, json): the one instance the model follows
DoConstruct(cls, ident, doctype, json) ==
    LET r == InitRes(ident, doctype, json, uuids)
    IN  /\ ~doc.exists
        /\ r.n <= MaxUuid
        /\ doc' = IF r.err = ""
                  THEN [exists |-> TRUE, cls |-> cls, dict |-> r.dict]
                  ELSE doc
        /\ uuids' = r.n
        /\ last' = [Call("init", cls) EXCEPT !.err = r.err, !.key = r.key,
                        !.ident = ident, !.doctype = doctype, !.json = json]
        /\ UNCHANGED <<classServer, classBucket>>

\* the effect of a document method with outcome o
Apply(op, srv, bucket, o) ==
    /\ doc' = [doc EXCEPT !.dict = o.dict]
    /\ last' = [Call(op, doc.cls) EXCEPT !.err = o.err, !.key = o.key,
                    !.srv = srv, !.bucket = bucket, !.reply = o.reply,
                    !.keys = o.keys, !.calls = o.calls]
    /\ UNCHANGED <<uuids, classServer, classBucket>>

\* a bound call that assure_class_has_server() stopped
Unbound(op, cls) ==
    /\ last' = [Call(op, cls) EXCEPT !.err = "unbound"]
    /\ UNCHANGED <<doc, uuids, classServer, classBucket>>

Construct ==
    \E ident \in IdVals, doctype \in DocTypes, json \in Jsons :
        DoConstruct("JSONDocument", ident, doctype, json)

\* construction without a data mapping
New ==
    \E cls \in Kinds, ident \in IdVals, doctype \in DocTypes :
        DoConstruct(cls, ident, doctype, JNone)

UpdateWith ==
    /\ doc.exists
    /\ \E json \in Jsons :
        LET u == UpdateWithRes(doc.dict, json)
        IN  /\ doc' = [doc EXCEPT !.dict = u.dict]
            /\ last' = [Call("update_with", doc.cls) EXCEPT !.err = u.err,
                            !.key = u.key, !.keys = KeysOf(json)]
            /\ UNCHANGED <<uuids, classServer, classBucket>>

LoadFrom ==
    /\ doc.exists
    /\ \E server \in Servers :
        \E o \in LoadFromRes(doc.dict, server, NoBucket) :
            Apply("load_from", server, NoBucket, o)

StoreTo ==
    /\ doc.exists
    /\ \E server \in Servers :
        \E o \in StoreToRes(doc.dict, server, NoBucket) :
            Apply("store_to", server, NoBucket, o)

RemoveFrom ==
    /\ doc.exists
    /\ \E server \in Servers :
        \E o \in RemoveFromRes(doc.dict, server, NoBucket) :
            Apply("remove_from", server, NoBucket, o)

InsertTo ==
    \E cls \in {"JSONDocument"}, server \in Servers, documents \in Documents :
        \E o \in InsertToRes(documents, server, NoBucket) :
            /\ last' = [Call("insert_to", cls) EXCEPT !.err = o.err, !.srv = server,
                            !.calls = o.calls]
            /\ UNCHANGED <<doc, uuids, classServer, classBucket>>

FindOn ==
    \E cls \in {"JSONDocument"}, server \in Servers :
        \E o \in FindOnRes(cls, server, NoBucket, uuids) :
            /\ o.n <= MaxUuid
            /\ uuids' = o.n
            /\ last' = [Call("find_on", cls) EXCEPT !.err = o.err, !.srv = server,
                            !.found = o.found, !.ret = o.ret, !.calls = o.calls]
            /\ UNCHANGED <<doc, classServer, classBucket>>

Hookup ==
    \E cls \in Kinds, jsonsrv \in {NoServer, WrongServer, "JSONServer", "MockServer"},
       bucket \in {NoBucket, ""} \cup Buckets :
        LET h == HookupRes(cls, jsonsrv, bucket)
        IN  /\ classServer' = h.server
            /\ classBucket' = h.bucket
            /\ last' = [Call("hookup", cls) EXCEPT !.err = h.err, !.srv = jsonsrv,
                            !.bucket = bucket]
            /\ UNCHANGED <<doc, uuids>>

Load ==
    /\ doc.exists
    /\ LET a == AssureClassHasServer(doc.cls)
       IN  IF a.err # "" THEN Unbound("load", doc.cls)
           ELSE \E o \in LoadFromRes(doc.dict, a.srv, ClassBucket(doc.cls)) :
                    Apply("load", a.srv, ClassBucket(doc.cls), o)

Store ==
    /\ doc.exists
    /\ LET a == AssureClassHasServer(doc.cls)
       IN  IF a.err # "" THEN Unbound("store", doc.cls)
           ELSE \E o \in StoreToRes(doc.dict, a.srv, ClassBucket(doc.cls)) :
                    Apply("store", a.srv, ClassBucket(doc.cls), o)

Remove ==
    /\ doc.exists
    /\ LET a == AssureClassHasServer(doc.cls)
       IN  IF a.err # "" THEN Unbound("remove", doc.cls)
           ELSE \E o \in RemoveFromRes(doc.dict, a.srv, ClassBucket(doc.cls)) :
                    Apply("remove", a.srv, ClassBucket(doc.cls), o)

Insert ==
    \E cls \in Kinds, documents \in Documents :
        LET a == AssureClassHasServer(cls)
        IN  IF a.err # "" THEN Unbound("insert", cls)
            ELSE \E o \in InsertToRes(documents, a.srv, ClassBucket(cls)) :
                    /\ last' = [Call("insert", cls) EXCEPT !.err = o.err, !.srv = a.srv,
                                    !.bucket = ClassBucket(cls), !.calls = o.calls]
                    /\ UNCHANGED <<doc, uuids, classServer, classBucket>>

\* find(dic): the list find_on builds is not returned
Find ==
    \E cls \in Kinds :
        LET a == AssureClassHasServer(cls)
        IN  IF a.err # "" THEN Unbound("find", cls)
            ELSE \E o \in FindOnRes(cls, a.srv, ClassBucket(cls), uuids) :
                    /\ o.n <= MaxUuid
                    /\ uuids' = o.n
                    /\ last' = [Call("find", cls) EXCEPT !.err = o.err, !.srv = a.srv,
                                    !.bucket = ClassBucket(cls), !.found = o.found,
                                    !.ret = NoRet, !.calls = o.calls]
                    /\ UNCHANGED <<doc, classServer, classBucket>>

-----------------------------------------------------------------------------
(* Specifications *)

\* the kinds' bindings and the calls that go through them
Next ==
    \/ New
    \/ Hookup
    \/ Load
    \/ Insert
    \/ Store
    \/ Remove
    \/ Find

Spec == Init /\ [][Next]_vars

\* one document under every data mapping and every reply of a backend,
\* the server passed explicitly
NextDoc ==
    \/ Construct
    \/ UpdateWith
    \/ LoadFrom
    \/ InsertTo
    \/ StoreTo
    \/ RemoveFrom
    \/ FindOn

SpecDoc == Init /\ [][NextDoc]_vars

-----------------------------------------------------------------------------
(* Properties *)

\* the value a data mapping holds under a key, None when the key (or the
\* mapping) is absent
ValueAt(json, key) ==
    IF json.isNone \/ ~HasKey(json.items, key) THEN None ELSE Get(json.items, key)

HasReserved(json, key) == ~json.isNone /\ HasKey(json.items, key)

\* the state right after a construction that completed
Constructed == last.op = "init" /\ last.err = "" /\ doc.exists

\* C1 (as stated): the id of a constructed document is, in this order, the
\* explicit ident if given, else the value under `_id` in the data, else the
\* value under `id` in the data, else a freshly generated string.
C1_PriorityOrder ==
    Constructed =>
        LET chosen ==
                IF last.ident # None THEN last.ident
                ELSE IF ValueAt(last.json, "_id") # None THEN ValueAt(last.json, "_id")
                ELSE ValueAt(last.json, "id")
        IN  Id(doc.dict) = IF chosen # None THEN Str(chosen) ELSE Uuid(uuids)

\* C1 (amended): the id of a constructed document is the string form of the
\* explicit ident if given; else of the value under `_id` when the data has
\* an `_id` key with a non-null value; else of the value under `id` when the
\* data has no `_id` key at all and `id` is non-null; in every other case,
\* also when a null `_id` stands beside a non-null `id`, it is the freshly
\* generated string.
C1_IdResolution ==
    Constructed =>
        LET id == Id(doc.dict)
            hasU == HasReserved(last.json, "_id")
            u == ValueAt(last.json, "_id")
            i == ValueAt(last.json, "id")
        IN  /\ last.ident # None => id = Str(last.ident)
            /\ last.ident = None /\ u # None => id = Str(u)
            /\ last.ident = None /\ ~hasU /\ i # None => id = Str(i)
            /\ last.ident = None /\ u = None /\ (hasU \/ i = None) => id = Uuid(uuids)

\* C1 witness: a construction without ident whose data holds a null `_id`
\* beside a non-null `id` got a fresh id
C1_Witness ==
    /\ Constructed
    /\ last.ident = None
    /\ HasReserved(last.json, "_id") /\ ValueAt(last.json, "_id") = None
    /\ ValueAt(last.json, "id") = S("abc")
    /\ Id(doc.dict) = Uuid(uuids)

\* C2: a document's id is never null, at construction and after any later
\* call.
C2_IdNeverNull == doc.exists => Id(doc.dict) # None

\* C3: no call on a constructed document changes its id.
C3_IdImmutable ==
    [][doc.exists /\ doc'.exists => Id(doc'.dict) = Id(doc.dict)]_vars

\* C4 (as stated): `_id` and `id` of an incoming data mapping are taken out
\* before the merge, in construction and in every merge: no merge fails on
\* them and no document has an attribute `id`.
C4_ReservedKeysStripped ==
    /\ ~(/\ last.op \in {"init", "update_with", "load_from", "load"}
         /\ last.err = "attr"
         /\ last.key \in {"_id", "id"})
    /\ doc.exists => "id" \notin DOMAIN doc.dict

\* the keys of a data mapping that are not reserved
RegularKeys(json) == {KeysOf(json)[n] : n \in 1..Len(KeysOf(json))} \ {"_id", "id"}

\* C4 (amended): no document ever has an attribute `id`.  Construction
\* takes both `_id` and `id` out of the data, never fails on them, and the
\* remaining keys (and the doctype) are the attributes.  update_with and the
\* merge of a load take neither out: a merge whose data has an `id` key
\* fails with the attribute-assignment error naming `id`, and a merge
\* without one succeeds.
C4_IdNeverAttribute ==
    /\ doc.exists => "id" \notin DOMAIN doc.dict
    /\ last.op = "init" =>
        /\ last.err = ""
        /\ doc.exists
        /\ DOMAIN doc.dict =
              {"_id"} \cup RegularKeys(last.json)
                      \cup (IF last.doctype # None THEN {"type"} ELSE {})
        /\ \A k \in RegularKeys(last.json) : doc.dict[k] = ValueAt(last.json, k)
    /\ (/\ last.op \in {"update_with", "load_from", "load"}
        /\ last.err \notin {"adapter", "unbound", "missing-id"})
       => IF \E n \in 1..Len(last.keys) : last.keys[n] = "id"
          THEN last.err = "attr" /\ last.key = "id"
          ELSE last.err = ""

\* C4 witness: a record a load merged carried `id` after `_id`; the merge
\* failed on `id`, which is no attribute of the document
C4_Witness ==
    /\ last.op = "load_from"
    /\ last.keys = <<"_id", "id">>
    /\ last.err = "attr"
    /\ last.key = "id"
    /\ doc.exists /\ "id" \notin DOMAIN doc.dict

BoundOps == {"load", "insert", "store", "remove", "find"}

\* C6: a bound CRUD call on a kind without a server, or with a server and
\* without a bucket, fails with the unbound-kind error and invokes no
\* operation of a server.
C6_UnboundFailsFast ==
    (/\ last.op \in BoundOps
     /\ (ClassServer(last.cls) = NoServer \/ ClassBucket(last.cls) = NoBucket))
    => last.err = "unbound" /\ last.calls = <<>>

\* C6 witness: a store on a kind hooked up to a server and to no bucket
\* failed as unbound
C6_Witness ==
    /\ last.op = "store"
    /\ ClassServer(last.cls) = "JSONServer"
    /\ ClassBucket(last.cls) = NoBucket
    /\ last.err = "unbound"

\* C7: hookup fails given a value that is not a JSONServer, and fails given
\* no server on a kind that has none (bucket or not); a failed hookup changes
\* neither server nor bucket of any kind; a hookup given a JSONServer
\* succeeds and binds it.
C7_HookupFailure ==
    [][\A c \in Kinds :
        (last'.op = "hookup" /\ last'.cls = c) =>
            /\ last'.srv = WrongServer => last'.err = "capability"
            /\ last'.srv = NoServer /\ ClassServer(c) = NoServer
                    => last'.err = "need-server"
            /\ last'.err # ""
                    => classServer' = classServer /\ classBucket' = classBucket
            /\ last'.srv \in Servers
                    => last'.err = "" /\ ClassServer(c)' = last'.srv]_vars

\* C7 witness: hookup(None, 'foo') on a kind that never had a server failed
\* and the kind still has no bucket
C7_Witness ==
    /\ last.op = "hookup"
    /\ last.srv = NoServer
    /\ last.bucket = "foo"
    /\ last.err = "need-server"
    /\ ClassBucket(last.cls) = NoBucket

\* C8: find and find_on return a sequence with one document per record the
\* server returned, the empty sequence when it returned null or nothing,
\* never null.
C8_FindReturnsSequence ==
    (last.op \in {"find", "find_on"} /\ last.err = "")
    => /\ ~last.ret.isNone
       /\ Len(last.ret.docs) = Len(last.found.records)

\* C9: load and remove called on a document whose id is null fail with the
\* missing-identity error, and no remove_document is invoked with a null id.
C9_NullIdRejected ==
    [][(/\ last'.op \in {"load", "load_from", "remove", "remove_from"}
        /\ last'.err # "unbound"
        /\ doc.exists
        /\ Id(doc.dict) = None)
       => /\ last'.err = "missing-id"
          /\ \A n \in 1..Len(last'.calls) :
               ~(/\ last'.calls[n].op = "remove_document"
                 /\ last'.calls[n].arg = None)]_vars

\* C10: a call that fails with the attribute-assignment error or with the
\* consistency error leaves the document as it was before the call.
C10_AllOrNothing ==
    [][last'.err \in {"attr", "consistency"} => doc' = doc]_vars

\* C11: a hookup that succeeds makes the given bucket the kind's bucket when
\* one is given and non-empty, and leaves the kind's bucket as it was when
\* the bucket is omitted or empty; it makes the given server the kind's
\* server, and leaves the kind's server as it was when the server is
\* omitted.  A bound CRUD call, of an instance or of the kind, that gets
\* past the binding check goes to the server and the bucket the kind is
\* bound to when it is made, with every server operation it invokes, and
\* changes no binding.
C11_HookupBinding ==
    [][\A c \in Kinds :
        /\ (last'.op = "hookup" /\ last'.cls = c /\ last'.err = "") =>
            /\ ClassBucket(c)' = IF last'.bucket \notin {NoBucket, ""}
                                 THEN last'.bucket ELSE ClassBucket(c)
            /\ ClassServer(c)' = IF last'.srv # NoServer
                                 THEN last'.srv ELSE ClassServer(c)
        /\ (last'.op \in BoundOps /\ last'.cls = c /\ last'.err # "unbound") =>
            /\ last'.srv = ClassServer(c)
            /\ last'.bucket = ClassBucket(c)
            /\ \A n \in 1..Len(last'.calls) :
                 /\ last'.calls[n].srv = ClassServer(c)
                 /\ last'.calls[n].bucket = ClassBucket(c)
            /\ last'.op \in {"load", "store", "remove"} => doc.exists /\ doc.cls = c
            /\ classServer' = classServer /\ classBucket' = classBucket]_vars

\* C11 witness: the derived kind was hooked up to its own server and
\* bucket, and a store of its instance went to that server and that bucket
C11_Witness ==
    /\ last.op = "store"
    /\ last.err = ""
    /\ doc.exists /\ doc.cls = "SubDocument" /\ last.cls = "SubDocument"
    /\ classServer["SubDocument"] = "MockServer"
    /\ classBucket["SubDocument"] = "bar"
    /\ classBucket["JSONDocument"] # "bar"
    /\ last.srv = "MockServer"
    /\ last.calls = <<Invoke("MockServer", "store_document", "bar", Id(doc.dict))>>

\* C12: the binding belongs to the kind it was set on.  A hookup on one
\* kind changes neither the server nor the bucket the bound calls of any
\* other kind use, a kind derived from it included; and a kind that was
\* itself never given a server fails hookup(None, bucket) and every bound
\* CRUD call, whatever the other kinds are bound to.
C12_BindingScopedToKind ==
    [][\A c \in Kinds :
        /\ (last'.op = "hookup" /\ last'.cls = c) =>
            \A d \in Kinds \ {c} :
                /\ ClassServer(d)' = ClassServer(d)
                /\ ClassBucket(d)' = ClassBucket(d)
        /\ (last'.cls = c /\ classServer[c] \in {NoServer, Unset}) =>
            /\ last'.op = "hookup" /\ last'.srv = NoServer
                    => last'.err = "need-server"
            /\ last'.op \in BoundOps => last'.err = "unbound"]_vars

====
